---- MODULE Spec2Model ----
(***************************************************************************)
(* Training-loop protocol of the generative-model library:                 *)
(*   simplegan/gan/dcgan.py            DCGAN.fit, generate_samples,        *)
(*                                     get_sample, __load_model            *)
(*   simplegan/autoencoder/vae.py      VAE.fit, generate_samples,          *)
(*                                     get_sample                          *)
(*   easygan/autoencoder/convolutional_autoencoder.py   build_model, call  *)
(* One instance of one of the three classes is modelled; a call is a       *)
(* sequential program whose position is pc.  Loss values are in units of   *)
(* one half, so that the factor 0.5 of the KL term stays an integer.       *)
(* Spec is an instance constructed with the default arguments; SpecRestore *)
(* is a DCGAN constructed with checkpoint paths.                           *)
(***************************************************************************)
EXTENDS Integers, Sequences, FiniteSets, TLC

\* ---------------------------------------------------------------- bounds
MaxEpochs == 2
MaxBatches == 2
MaxDirLen == 1
MaxLayers == 2
MaxSamples == 2

VARIABLES
    cls,                \* class of the instance: "VAE", "DCGAN" or "CAE"
    op,                 \* method the call in progress is a call of
    pc,                 \* position of the call in progress
    err,                \* exception raised by the call in progress
    image_size,         \* self.image_size: FALSE is None, TRUE is a shape
    model,              \* VAE.model
    gen_model,          \* DCGAN.gen_model
    disc_model,         \* DCGAN.disc_model
    nextNet,            \* identity given to the next network object built
                        \* (identities of dropped objects are used again)
    train_ds,           \* argument of fit
    epochs,             \* argument of fit
    save_model,         \* argument of fit
    optimizers,         \* optimizer objects created by the call in progress
    epoch,              \* loop variable of fit
    bi,                 \* number of batches consumed in the current pass
    steps,              \* local steps of fit
    loss,               \* local loss of VAE.fit
    kl_loss,            \* value of the tensor given to model.add_loss
    D_loss,             \* local D_loss of DCGAN.fit
    G_loss,             \* local G_loss of DCGAN.fit
    train_loss,         \* tf.keras.metrics.Mean of VAE.fit
    generator_loss,     \* tf.keras.metrics.Mean of DCGAN.fit
    discriminator_loss, \* tf.keras.metrics.Mean of DCGAN.fit
    updates,            \* trace of the optimizer updates applied by the call
    mse,                \* value of mse_loss(data, data_recon) in VAE.fit
    applied,            \* loss whose gradient the last optimizer update used
    seen,               \* step losses computed since the current epoch began
    files,              \* checkpoint files written by the call in progress
    enc,                \* ConvolutionalAutoencoder.enc
    dec,                \* ConvolutionalAutoencoder.dec
    params,             \* argument of the last build_model call
    config,             \* self.config: gen_path and disc_path of DCGAN
    tensorboard,        \* argument of fit
    emitted,            \* tf.summary.scalar calls of the call in progress
    tape,               \* per tape: parameter versions read and loss computed
    n_samples,          \* argument of generate_samples and get_sample
    save_dir,           \* argument of generate_samples and get_sample
    samples,            \* generated_samples / sample_images, in draw order
    si,                 \* loop index of the imwrite loop
    sample_files,       \* sample files written by the call in progress
    result,             \* value the call in progress returned
    missing             \* gen_model was None when the sampling call in progress began

instVars == <<cls, image_size, model, gen_model, disc_model, nextNet, enc, dec>>
argVars == <<train_ds, epochs, save_model, params>>
loopVars == <<epoch, bi, steps>>
lossVars == <<loss, kl_loss, D_loss, G_loss>>
metricVars == <<train_loss, generator_loss, discriminator_loss>>
ghostVars == <<updates, mse, applied, seen, files>>
sampleVars == <<n_samples, save_dir, samples, si, sample_files, result, missing>>
obsVars == <<tensorboard, emitted, tape>>
vars == <<op, pc, err, instVars, argVars, optimizers, loopVars, lossVars,
          metricVars, ghostVars, config, sampleVars, obsVars>>

\* ------------------------------------------------------------- values
NoneRef == [id |-> 0, ver |-> 0, w |-> "none"]
NoArg == [t |-> "None", v |-> <<>>]
NoError == [type |-> "none", at |-> "none"]
NoParams == [enc_channels |-> <<>>, encoder_layers |-> 0,
             dec_channels |-> <<>>, decoder_layers |-> 0]
NoneNet == [built |-> FALSE, channels |-> <<>>, layers |-> 0]
ChannelLists == {[i \in 1..n |-> 16 * i] : n \in 0..MaxLayers}
BuildParams == [enc_channels : ChannelLists, encoder_layers : 0..MaxLayers,
                dec_channels : ChannelLists, decoder_layers : 0..MaxLayers]
Chars == {"a", "/"}
Dirs == UNION {[1..n -> Chars] : n \in 0..MaxDirLen}
SaveArgs == {NoArg, [t |-> "int", v |-> <<>>]} \cup {[t |-> "str", v |-> d] : d \in Dirs}
DataArgs == {NoArg} \cup {[t |-> "ds", v |-> [i \in 1..n |-> i]] : n \in 0..MaxBatches}
Losses == {1, 2}
MseLosses == {0, 1}
ZMeans == {0, 1}
ZVars == {0}
NoSeen == [d |-> 0, g |-> 0, v |-> 0, n |-> 0]
NoPaths == [gen_path |-> "None", disc_path |-> "None"]
PathConfigs == [gen_path : {"None", "gen_ckpt"}, disc_path : {"None", "disc_ckpt"}]
LoadOutcomes == [gen : BOOLEAN, disc : BOOLEAN]
NoDir == [t |-> "None", exists |-> FALSE]
DirArgs == {NoDir} \cup {[t |-> "str", exists |-> e] : e \in BOOLEAN}
NoResult == [t |-> "none", v |-> <<>>]
NoRead == [step |-> 0, model |-> 0, gen |-> 0, disc |-> 0, loss |-> 0]
NoTape == [D |-> NoRead, G |-> NoRead, V |-> NoRead]

\* tf.keras.metrics.Mean: a running total and a count
NewMean == [total |-> 0, count |-> 0]

\* reset_states that leaves the accumulator as it is
reset_states_Keep(m) == m

reset_states(m) == [total |-> 0, count |-> 0]

update_state(m, x) == [total |-> m.total + x, count |-> m.count + 1]

\* one optimizer.apply_gradients on the variables of one network
apply_gradients(net) == [net EXCEPT !.ver = @ + 1]

\* exp on the modelled values of z_var
Exp(x) == IF x = 0 THEN 1 ELSE 0

\* kl_loss of VAE.vae, times two, for a latent batch of one element
kl_loss_of(z_mean, z_var) == 0 - (z_var - z_mean * z_mean - Exp(z_var) + 1)

\* the path of the save branch of fit: "/" + name is appended when the last
\* character of the directory is not "/", name alone otherwise
CheckpointPath(d, name) ==
    IF d[Len(d)] /= "/" THEN d \o <<"/", name>> ELSE d \o <<name>>

Raise(type, at) == [type |-> type, at |-> at]

NBatches == Len(train_ds.v)

\* the state the constructor of class c leaves, c being DCGAN when paths are
\* given: DCGAN.__init__ stores gen_path and disc_path in self.config
InitOf(c, paths) ==
    /\ cls = c
    /\ op = "none"
    /\ pc = "idle"
    /\ err = NoError
    /\ image_size = FALSE
    /\ model = NoneRef
    /\ gen_model = NoneRef
    /\ disc_model = NoneRef
    /\ nextNet = 1
    /\ train_ds = NoArg
    /\ epochs = 0
    /\ save_model = NoArg
    /\ optimizers = {}
    /\ epoch = 0
    /\ bi = 0
    /\ steps = 0
    /\ loss = 0
    /\ kl_loss = 0
    /\ D_loss = 0
    /\ G_loss = 0
    /\ train_loss = NewMean
    /\ generator_loss = NewMean
    /\ discriminator_loss = NewMean
    /\ updates = <<>>
    /\ mse = 0
    /\ applied = 0
    /\ seen = NoSeen
    /\ files = {}
    /\ enc = NoneNet
    /\ dec = NoneNet
    /\ params = NoParams
    /\ config = paths
    /\ tensorboard = FALSE
    /\ emitted = <<>>
    /\ tape = NoTape
    /\ n_samples = 0
    /\ save_dir = NoDir
    /\ samples = <<>>
    /\ si = 0
    /\ sample_files = <<>>
    /\ result = NoResult
    /\ missing = FALSE

\* an instance constructed with the default arguments: no checkpoint path
Init == \E c \in {"VAE", "DCGAN", "CAE"} : InitOf(c, NoPaths)

\* a DCGAN constructed with at least one checkpoint path
InitRestore == \E paths \in PathConfigs \ {NoPaths} : InitOf("DCGAN", paths)

\* identities 1..4 are enough to tell the networks of a call from those the
\* instance held before it
NextId(n) == ((n - 1) % 4) + 1

\* a network object as its constructor leaves it
NewNet(id) == [id |-> id, ver |-> 0, w |-> "init"]

\* load_weights on a network
load_weights(net) == [net EXCEPT !.w = "restored"]

\* DCGAN.__load_model without the discriminator restore
load_model_GenOnly(ok) ==
    IF ~image_size
      THEN [err |-> Raise("TypeError", "load_model"),
            gen |-> gen_model, disc |-> disc_model, next |-> nextNet]
    ELSE IF config.gen_path /= "None" /\ ~ok.gen
      THEN [err |-> Raise("LoadError", "gen_path"),
            gen |-> NewNet(nextNet), disc |-> NewNet(nextNet + 1), next |-> NextId(nextNet + 2)]
    ELSE [err |-> NoError,
          gen |-> IF config.gen_path /= "None" THEN load_weights(NewNet(nextNet))
                  ELSE NewNet(nextNet),
          disc |-> NewNet(nextNet + 1), next |-> NextId(nextNet + 2)]

\* DCGAN.__load_model: both networks are built and assigned, then each
\* checkpoint path of the configuration is loaded; ok tells which
\* load_weights calls succeed.  generator() reads self.image_size first.
load_model(ok) ==
    IF ~image_size
      THEN [err |-> Raise("TypeError", "load_model"),
            gen |-> gen_model, disc |-> disc_model, next |-> nextNet]
    ELSE IF config.gen_path /= "None" /\ ~ok.gen
      THEN [err |-> Raise("LoadError", "gen_path"),
            gen |-> NewNet(nextNet), disc |-> NewNet(nextNet + 1), next |-> NextId(nextNet + 2)]
    ELSE IF config.disc_path /= "None" /\ ~ok.disc
      THEN [err |-> Raise("LoadError", "disc_path"),
            gen |-> IF config.gen_path /= "None" THEN load_weights(NewNet(nextNet))
                    ELSE NewNet(nextNet),
            disc |-> NewNet(nextNet + 1), next |-> NextId(nextNet + 2)]
    ELSE [err |-> NoError,
          gen |-> IF config.gen_path /= "None" THEN load_weights(NewNet(nextNet))
                  ELSE NewNet(nextNet),
          disc |-> IF config.disc_path /= "None" THEN load_weights(NewNet(nextNet + 1))
                   ELSE NewNet(nextNet + 1),
          next |-> NextId(nextNet + 2)]

\* what a forward pass under a tape reads: the parameter versions of the
\* networks at that moment, in training step `steps`, and the loss it computes
Forward(l) == [step |-> steps, model |-> model.ver, gen |-> gen_model.ver,
               disc |-> disc_model.ver, loss |-> l]

\* load_data: sets self.image_size from the loaded data
LoadData ==
    /\ pc = "idle"
    /\ image_size' = TRUE
    /\ UNCHANGED <<cls, model, gen_model, disc_model, nextNet, enc, dec>>
    /\ UNCHANGED <<op, pc, err, argVars, optimizers, loopVars, lossVars,
                   metricVars, ghostVars>>
    /\ UNCHANGED <<config, sampleVars, obsVars>>

\* an entry that calls __load_model before it looks at train_ds
DcganFit_LoadFirst(ds, ep, sm, tb, ok) ==
    /\ cls = "DCGAN"
    /\ pc = "idle"
    /\ op' = "fit"
    /\ train_ds' = ds
    /\ epochs' = ep
    /\ save_model' = sm
    /\ tensorboard' = tb
    /\ gen_model' = load_model(ok).gen
    /\ disc_model' = load_model(ok).disc
    /\ nextNet' = load_model(ok).next
    /\ IF load_model(ok).err /= NoError
         THEN /\ pc' = "raised"
              /\ err' = load_model(ok).err
              /\ UNCHANGED optimizers
         ELSE IF ds.t = "None"
         THEN /\ pc' = "raised"
              /\ err' = Raise("AssertionError", "train_ds")
              /\ UNCHANGED optimizers
         ELSE /\ optimizers' = {"gen_optimizer", "disc_optimizer"}
              /\ pc' = "epochLoop"
              /\ err' = NoError
    /\ UNCHANGED <<cls, image_size, model, enc, dec, params>>
    /\ UNCHANGED <<loopVars, lossVars, metricVars, updates, mse, applied, seen, files>>
    /\ UNCHANGED <<config, sampleVars, emitted, tape>>

\* ------------------------------------------------------------ DCGAN.fit
\* entry of DCGAN.fit: the assert on train_ds, __load_model, the two
\* optimizers, steps and the two metrics
DcganFit(ds, ep, sm, tb, ok) ==
    /\ cls = "DCGAN"
    /\ pc = "idle"
    /\ op' = "fit"
    /\ train_ds' = ds
    /\ epochs' = ep
    /\ save_model' = sm
    /\ tensorboard' = tb
    /\ IF ds.t = "None"
         THEN /\ pc' = "raised"
              /\ err' = Raise("AssertionError", "train_ds")
              /\ UNCHANGED <<gen_model, disc_model, nextNet, optimizers>>
         ELSE /\ gen_model' = load_model(ok).gen
              /\ disc_model' = load_model(ok).disc
              /\ nextNet' = load_model(ok).next
              /\ err' = load_model(ok).err
              /\ IF load_model(ok).err /= NoError
                   THEN /\ pc' = "raised"
                        /\ UNCHANGED optimizers
                   ELSE /\ optimizers' = {"gen_optimizer", "disc_optimizer"}
                        /\ pc' = "epochLoop"
    /\ UNCHANGED <<cls, image_size, model, enc, dec, params>>
    /\ UNCHANGED <<loopVars, lossVars, metricVars, updates, mse, applied, seen, files>>
    /\ UNCHANGED <<config, sampleVars, emitted, tape>>

\* for epoch in range(epochs): the two reset_states calls
DcganEpochBegin ==
    /\ cls = "DCGAN"
    /\ pc = "epochLoop"
    /\ epoch < epochs
    /\ generator_loss' = reset_states(generator_loss)
    /\ discriminator_loss' = reset_states(discriminator_loss)
    /\ bi' = 0
    /\ seen' = NoSeen
    /\ pc' = "batchLoop"
    /\ UNCHANGED <<op, err, instVars, argVars, optimizers, epoch, steps, lossVars,
                   train_loss, updates, mse, applied, files>>
    /\ UNCHANGED <<config, sampleVars, obsVars>>

\* range(epochs) is exhausted
DcganLoopExit ==
    /\ cls = "DCGAN"
    /\ pc = "epochLoop"
    /\ epoch >= epochs
    /\ pc' = "save"
    /\ UNCHANGED <<op, err, instVars, argVars, optimizers, loopVars, lossVars,
                   metricVars, ghostVars>>
    /\ UNCHANGED <<config, sampleVars, obsVars>>

\* first tape: fake and real logits and D_loss for the next batch
DcganDForward ==
    /\ cls = "DCGAN"
    /\ pc = "batchLoop"
    /\ bi < NBatches
    /\ \E l \in Losses :
          /\ D_loss' = l
          /\ tape' = [tape EXCEPT !.D = Forward(l)]
    /\ pc' = "dApply"
    /\ UNCHANGED <<op, err, instVars, argVars, optimizers, loopVars, loss, kl_loss,
                   G_loss, metricVars, ghostVars>>
    /\ UNCHANGED <<config, sampleVars, tensorboard, emitted>>

\* the first update of a step applied to the generator instead
DcganDApply_WrongNet ==
    /\ cls = "DCGAN"
    /\ pc = "dApply"
    /\ gen_model' = apply_gradients(gen_model)
    /\ updates' = Append(updates, [net |-> "G", epoch |-> epoch, batch |-> train_ds.v[bi + 1]])
    /\ pc' = "gForward"
    /\ UNCHANGED <<cls, image_size, model, disc_model, nextNet, enc, dec>>
    /\ UNCHANGED <<op, err, argVars, optimizers, loopVars, lossVars, metricVars,
                   mse, applied, seen, files>>
    /\ UNCHANGED <<config, sampleVars, obsVars>>

\* disc_optimizer.apply_gradients on disc_model.trainable_variables
DcganDApply ==
    /\ cls = "DCGAN"
    /\ pc = "dApply"
    /\ disc_model' = apply_gradients(disc_model)
    /\ updates' = Append(updates, [net |-> "D", epoch |-> epoch, batch |-> train_ds.v[bi + 1]])
    /\ pc' = "gForward"
    /\ UNCHANGED <<cls, image_size, model, gen_model, nextNet, enc, dec>>
    /\ UNCHANGED <<op, err, argVars, optimizers, loopVars, lossVars, metricVars,
                   mse, applied, seen, files>>
    /\ UNCHANGED <<config, sampleVars, obsVars>>

\* a second tape that scores the fakes with the discriminator parameters
\* the first tape read
DcganGForward_Stale ==
    /\ cls = "DCGAN"
    /\ pc = "gForward"
    /\ \E l \in Losses :
          /\ G_loss' = l
          /\ tape' = [tape EXCEPT !.G = [Forward(l) EXCEPT !.disc = tape.D.disc]]
    /\ pc' = "gApply"
    /\ UNCHANGED <<op, err, instVars, argVars, optimizers, loopVars, loss, kl_loss,
                   D_loss, metricVars, ghostVars>>
    /\ UNCHANGED <<config, sampleVars, tensorboard, emitted>>

\* second tape: fresh fakes, their logits and G_loss
DcganGForward ==
    /\ cls = "DCGAN"
    /\ pc = "gForward"
    /\ \E l \in Losses :
          /\ G_loss' = l
          /\ tape' = [tape EXCEPT !.G = Forward(l)]
    /\ pc' = "gApply"
    /\ UNCHANGED <<op, err, instVars, argVars, optimizers, loopVars, loss, kl_loss,
                   D_loss, metricVars, ghostVars>>
    /\ UNCHANGED <<config, sampleVars, tensorboard, emitted>>

\* a generator update that also moves the discriminator parameters
DcganGApply_Both ==
    /\ cls = "DCGAN"
    /\ pc = "gApply"
    /\ gen_model' = apply_gradients(gen_model)
    /\ disc_model' = apply_gradients(disc_model)
    /\ updates' = Append(updates, [net |-> "G", epoch |-> epoch, batch |-> train_ds.v[bi + 1]])
    /\ pc' = "stepEnd"
    /\ UNCHANGED <<cls, image_size, model, nextNet, enc, dec>>
    /\ UNCHANGED <<op, err, argVars, optimizers, loopVars, lossVars, metricVars,
                   mse, applied, seen, files>>
    /\ UNCHANGED <<config, sampleVars, obsVars>>

\* gen_optimizer.apply_gradients on gen_model.trainable_variables
DcganGApply ==
    /\ cls = "DCGAN"
    /\ pc = "gApply"
    /\ gen_model' = apply_gradients(gen_model)
    /\ updates' = Append(updates, [net |-> "G", epoch |-> epoch, batch |-> train_ds.v[bi + 1]])
    /\ pc' = "stepEnd"
    /\ UNCHANGED <<cls, image_size, model, disc_model, nextNet, enc, dec>>
    /\ UNCHANGED <<op, err, argVars, optimizers, loopVars, lossVars, metricVars,
                   mse, applied, seen, files>>
    /\ UNCHANGED <<config, sampleVars, obsVars>>

\* tf.summary.scalar(name, value, step): the name and the step are kept
scalar(name, step) == [name |-> name, step |-> step]

\* a step end that numbers the scalars by the batch of the epoch
DcganStepEnd_EpochStep ==
    /\ cls = "DCGAN"
    /\ pc = "stepEnd"
    /\ generator_loss' = update_state(generator_loss, G_loss)
    /\ discriminator_loss' = update_state(discriminator_loss, D_loss)
    /\ steps' = steps + 1
    /\ emitted' = IF tensorboard
                     THEN emitted \o <<scalar("discr_loss", bi + 1),
                                       scalar("genr_loss", bi + 1)>>
                   ELSE emitted
    /\ bi' = bi + 1
    /\ seen' = [seen EXCEPT !.d = @ + D_loss, !.g = @ + G_loss, !.n = @ + 1]
    /\ pc' = "batchLoop"
    /\ UNCHANGED <<op, err, instVars, argVars, optimizers, epoch, lossVars,
                   train_loss, updates, mse, applied, files>>
    /\ UNCHANGED <<config, sampleVars, tensorboard, tape>>

\* generator_loss(G_loss); discriminator_loss(D_loss); steps += 1; with
\* tensorboard the two scalars of the step, tagged with the new steps
DcganStepEnd ==
    /\ cls = "DCGAN"
    /\ pc = "stepEnd"
    /\ generator_loss' = update_state(generator_loss, G_loss)
    /\ discriminator_loss' = update_state(discriminator_loss, D_loss)
    /\ steps' = steps + 1
    /\ emitted' = IF tensorboard
                     THEN emitted \o <<scalar("discr_loss", steps + 1),
                                       scalar("genr_loss", steps + 1)>>
                   ELSE emitted
    /\ bi' = bi + 1
    /\ seen' = [seen EXCEPT !.d = @ + D_loss, !.g = @ + G_loss, !.n = @ + 1]
    /\ pc' = "batchLoop"
    /\ UNCHANGED <<op, err, instVars, argVars, optimizers, epoch, lossVars,
                   train_loss, updates, mse, applied, files>>
    /\ UNCHANGED <<config, sampleVars, tensorboard, tape>>

\* an epoch end that writes the checkpoints of the epoch
DcganEpochEnd_Checkpoint ==
    /\ cls = "DCGAN"
    /\ pc = "batchLoop"
    /\ bi = NBatches
    /\ epoch' = epoch + 1
    /\ pc' = "epochLoop"
    /\ files' = files \cup {<<"generator_checkpoint">>, <<"discriminator_checkpoint">>}
    /\ UNCHANGED <<op, err, instVars, argVars, optimizers, bi, steps, lossVars,
                   metricVars, updates, mse, applied, seen>>
    /\ UNCHANGED <<config, sampleVars, obsVars>>

\* an epoch end that rejects a batch source that yielded no batch
DcganEpochEnd_RejectEmpty ==
    /\ cls = "DCGAN"
    /\ pc = "batchLoop"
    /\ bi = NBatches
    /\ epoch' = epoch + 1
    /\ pc' = IF NBatches = 0 THEN "raised" ELSE "epochLoop"
    /\ err' = IF NBatches = 0 THEN Raise("DataError", "train_ds") ELSE err
    /\ UNCHANGED <<op, instVars, argVars, optimizers, bi, steps, lossVars,
                   metricVars, ghostVars>>
    /\ UNCHANGED <<config, sampleVars, obsVars>>

\* the batch source is exhausted: the verbose print reads the two means
DcganEpochEnd ==
    /\ cls = "DCGAN"
    /\ pc = "batchLoop"
    /\ bi = NBatches
    /\ epoch' = epoch + 1
    /\ pc' = "epochLoop"
    /\ UNCHANGED <<op, err, instVars, argVars, optimizers, bi, steps, lossVars,
                   metricVars, ghostVars>>
    /\ UNCHANGED <<config, sampleVars, obsVars>>

\* an exception of a forward pass or of an optimizer update: the loop has no
\* try block, the exception leaves fit
DcganStepRaise ==
    /\ cls = "DCGAN"
    /\ \/ pc = "batchLoop" /\ bi < NBatches
       \/ pc \in {"dApply", "gForward", "gApply"}
    /\ pc' = "raised"
    /\ err' = Raise("StepError", "step")
    /\ UNCHANGED <<op, instVars, argVars, optimizers, loopVars, lossVars,
                   metricVars, ghostVars>>
    /\ UNCHANGED <<config, sampleVars, obsVars>>

\* the save branch up to and including gen_model.save_weights
DcganSaveGen ==
    /\ cls = "DCGAN"
    /\ pc = "save"
    /\ IF save_model.t = "None"
         THEN /\ pc' = "returned"
              /\ UNCHANGED <<err, files>>
         ELSE IF save_model.t /= "str"
         THEN /\ pc' = "raised"
              /\ err' = Raise("AssertionError", "save_model")
              /\ UNCHANGED files
         ELSE IF Len(save_model.v) = 0
         THEN /\ pc' = "raised"
              /\ err' = Raise("IndexError", "save_model")
              /\ UNCHANGED files
         ELSE /\ files' = files \cup {CheckpointPath(save_model.v, "generator_checkpoint")}
              /\ pc' = "saveDisc"
              /\ UNCHANGED err
    /\ UNCHANGED <<op, instVars, argVars, optimizers, loopVars, lossVars,
                   metricVars, updates, mse, applied, seen>>
    /\ UNCHANGED <<config, sampleVars, obsVars>>

\* disc_model.save_weights, in the branch DcganSaveGen took
DcganSaveDisc ==
    /\ cls = "DCGAN"
    /\ pc = "saveDisc"
    /\ files' = files \cup {CheckpointPath(save_model.v, "discriminator_checkpoint")}
    /\ pc' = "returned"
    /\ UNCHANGED <<op, err, instVars, argVars, optimizers, loopVars, lossVars,
                   metricVars, updates, mse, applied, seen>>
    /\ UNCHANGED <<config, sampleVars, obsVars>>

\* -------------------------------------------------------------- VAE.fit
\* loss = mse_loss(data, data_recon): the value the tape differentiates
FitLoss(m, kl) == m

\* entry of VAE.fit: the assert on train_ds, __load_model, the optimizer,
\* steps and the metric
VaeFit(ds, ep, sm, tb) ==
    /\ cls = "VAE"
    /\ pc = "idle"
    /\ op' = "fit"
    /\ train_ds' = ds
    /\ epochs' = ep
    /\ save_model' = sm
    /\ tensorboard' = tb
    /\ IF ds.t = "None"
         THEN /\ pc' = "raised"
              /\ err' = Raise("AssertionError", "train_ds")
              /\ UNCHANGED <<model, nextNet, optimizers>>
         ELSE IF ~image_size
         THEN /\ pc' = "raised"
              /\ err' = Raise("TypeError", "load_model")
              /\ UNCHANGED <<model, nextNet, optimizers>>
         ELSE /\ model' = NewNet(nextNet)
              /\ nextNet' = NextId(nextNet + 2)
              /\ optimizers' = {"optimizer"}
              /\ pc' = "epochLoop"
              /\ err' = NoError
    /\ UNCHANGED <<cls, image_size, gen_model, disc_model, enc, dec, params>>
    /\ UNCHANGED <<loopVars, lossVars, metricVars, ghostVars>>
    /\ UNCHANGED <<config, sampleVars, emitted, tape>>

\* for epoch in range(epochs): train_loss.reset_states()
VaeEpochBegin ==
    /\ cls = "VAE"
    /\ pc = "epochLoop"
    /\ epoch < epochs
    /\ train_loss' = reset_states(train_loss)
    /\ bi' = 0
    /\ seen' = NoSeen
    /\ pc' = "batchLoop"
    /\ UNCHANGED <<op, err, instVars, argVars, optimizers, epoch, steps, lossVars,
                   generator_loss, discriminator_loss, updates, mse, applied, files>>
    /\ UNCHANGED <<config, sampleVars, obsVars>>

\* range(epochs) is exhausted
VaeLoopExit ==
    /\ cls = "VAE"
    /\ pc = "epochLoop"
    /\ epoch >= epochs
    /\ pc' = "save"
    /\ UNCHANGED <<op, err, instVars, argVars, optimizers, loopVars, lossVars,
                   metricVars, ghostVars>>
    /\ UNCHANGED <<config, sampleVars, obsVars>>

\* the tape: data_recon = self.model(data), which also evaluates the tensor
\* given to add_loss, and loss = mse_loss(data, data_recon)
VaeForward ==
    /\ cls = "VAE"
    /\ pc = "batchLoop"
    /\ bi < NBatches
    /\ \E m \in MseLosses, z_mean \in ZMeans, z_var \in ZVars :
          /\ mse' = m
          /\ kl_loss' = kl_loss_of(z_mean, z_var)
          /\ loss' = FitLoss(m, kl_loss_of(z_mean, z_var))
          /\ tape' = [tape EXCEPT !.V = Forward(FitLoss(m, kl_loss_of(z_mean, z_var)))]
    /\ pc' = "vApply"
    /\ UNCHANGED <<op, err, instVars, argVars, optimizers, loopVars, D_loss, G_loss,
                   metricVars, updates, applied, seen, files>>
    /\ UNCHANGED <<config, sampleVars, tensorboard, emitted>>

\* tape.gradient(loss, ...) and optimizer.apply_gradients
VaeApply ==
    /\ cls = "VAE"
    /\ pc = "vApply"
    /\ model' = apply_gradients(model)
    /\ updates' = Append(updates, [net |-> "V", epoch |-> epoch, batch |-> train_ds.v[bi + 1]])
    /\ applied' = loss
    /\ pc' = "stepEnd"
    /\ UNCHANGED <<cls, image_size, gen_model, disc_model, nextNet, enc, dec>>
    /\ UNCHANGED <<op, err, argVars, optimizers, loopVars, lossVars, metricVars,
                   mse, seen, files>>
    /\ UNCHANGED <<config, sampleVars, obsVars>>

\* a step end whose metric takes the loss of a forward pass made after the
\* update
VaeStepEnd_Recomputed ==
    /\ cls = "VAE"
    /\ pc = "stepEnd"
    /\ \E l \in MseLosses :
          /\ train_loss' = update_state(train_loss, l)
          /\ seen' = [seen EXCEPT !.v = @ + l, !.n = @ + 1]
    /\ steps' = steps + 1
    /\ emitted' = IF tensorboard THEN Append(emitted, scalar("loss", steps + 1))
                   ELSE emitted
    /\ bi' = bi + 1
    /\ pc' = "batchLoop"
    /\ UNCHANGED <<op, err, instVars, argVars, optimizers, epoch, lossVars,
                   generator_loss, discriminator_loss, updates, mse, applied, files>>
    /\ UNCHANGED <<config, sampleVars, tensorboard, tape>>

\* train_loss(loss); steps += 1; with tensorboard the scalar of the step,
\* tagged with the new steps
VaeStepEnd ==
    /\ cls = "VAE"
    /\ pc = "stepEnd"
    /\ train_loss' = update_state(train_loss, loss)
    /\ steps' = steps + 1
    /\ emitted' = IF tensorboard THEN Append(emitted, scalar("loss", steps + 1))
                   ELSE emitted
    /\ bi' = bi + 1
    /\ seen' = [seen EXCEPT !.v = @ + loss, !.n = @ + 1]
    /\ pc' = "batchLoop"
    /\ UNCHANGED <<op, err, instVars, argVars, optimizers, epoch, lossVars,
                   generator_loss, discriminator_loss, updates, mse, applied, files>>
    /\ UNCHANGED <<config, sampleVars, tensorboard, tape>>

\* an epoch end that stops the training early
VaeEpochEnd_EarlyStop ==
    /\ cls = "VAE"
    /\ pc = "batchLoop"
    /\ bi = NBatches
    /\ epoch' = epochs
    /\ pc' = "epochLoop"
    /\ UNCHANGED <<op, err, instVars, argVars, optimizers, bi, steps, lossVars,
                   metricVars, ghostVars>>
    /\ UNCHANGED <<config, sampleVars, obsVars>>

\* the batch source is exhausted: the verbose print reads the mean
VaeEpochEnd ==
    /\ cls = "VAE"
    /\ pc = "batchLoop"
    /\ bi = NBatches
    /\ epoch' = epoch + 1
    /\ pc' = "epochLoop"
    /\ UNCHANGED <<op, err, instVars, argVars, optimizers, bi, steps, lossVars,
                   metricVars, ghostVars>>
    /\ UNCHANGED <<config, sampleVars, obsVars>>

\* an exception of the forward pass or of the optimizer update leaves fit
VaeStepRaise ==
    /\ cls = "VAE"
    /\ \/ pc = "batchLoop" /\ bi < NBatches
       \/ pc = "vApply"
    /\ pc' = "raised"
    /\ err' = Raise("StepError", "step")
    /\ UNCHANGED <<op, instVars, argVars, optimizers, loopVars, lossVars,
                   metricVars, ghostVars>>
    /\ UNCHANGED <<config, sampleVars, obsVars>>

\* the save branch of VAE.fit
VaeSave ==
    /\ cls = "VAE"
    /\ pc = "save"
    /\ IF save_model.t = "None"
         THEN /\ pc' = "returned"
              /\ UNCHANGED <<err, files>>
         ELSE IF save_model.t /= "str"
         THEN /\ pc' = "raised"
              /\ err' = Raise("AssertionError", "save_model")
              /\ UNCHANGED files
         ELSE IF Len(save_model.v) = 0
         THEN /\ pc' = "raised"
              /\ err' = Raise("IndexError", "save_model")
              /\ UNCHANGED files
         ELSE /\ files' = files \cup
                    {CheckpointPath(save_model.v, "variational_autoencoder_checkpoint")}
              /\ pc' = "returned"
              /\ UNCHANGED err
    /\ UNCHANGED <<op, instVars, argVars, optimizers, loopVars, lossVars,
                   metricVars, updates, mse, applied, seen>>
    /\ UNCHANGED <<config, sampleVars, obsVars>>

\* ------------------------------------------- ConvolutionalAutoencoder
Built(channels, layers) == [built |-> TRUE, channels |-> channels, layers |-> layers]

Failed(type, at) == [ok |-> FALSE, err |-> Raise(type, at), net |-> NoneNet]

\* encoder without the assert on the list length
encoder_NoAssert(p) ==
    IF Len(p.enc_channels) = 0
      THEN Failed("IndexError", "encoder")
    ELSE [ok |-> TRUE, err |-> NoError, net |-> Built(p.enc_channels, p.encoder_layers)]

\* encoder(params): the assert on the list length, then the layers
encoder(p) ==
    IF Len(p.enc_channels) /= p.encoder_layers
      THEN Failed("AssertionError", "encoder")
    ELSE IF Len(p.enc_channels) = 0
      THEN Failed("IndexError", "encoder")
    ELSE [ok |-> TRUE, err |-> NoError, net |-> Built(p.enc_channels, p.encoder_layers)]

\* decoder(params): the assert on the list length, then the layers, whose
\* sizes read self.image_size and dec_channels[0]
decoder(p) ==
    IF Len(p.dec_channels) /= p.decoder_layers
      THEN Failed("AssertionError", "decoder")
    ELSE IF ~image_size
      THEN Failed("TypeError", "decoder")
    ELSE IF Len(p.dec_channels) = 0
      THEN Failed("IndexError", "decoder")
    ELSE [ok |-> TRUE, err |-> NoError, net |-> Built(p.dec_channels, p.decoder_layers)]

\* build_model(params): self.enc = self.encoder(params), then
\* self.dec = self.decoder(params)
CaeBuildModel(p) ==
    /\ cls = "CAE"
    /\ pc = "idle"
    /\ op' = "build_model"
    /\ params' = p
    /\ IF ~encoder(p).ok
         THEN /\ pc' = "raised"
              /\ err' = encoder(p).err
              /\ UNCHANGED <<enc, dec>>
         ELSE IF ~decoder(p).ok
         THEN /\ enc' = encoder(p).net
              /\ pc' = "raised"
              /\ err' = decoder(p).err
              /\ UNCHANGED dec
         ELSE /\ enc' = encoder(p).net
              /\ dec' = decoder(p).net
              /\ pc' = "returned"
              /\ err' = NoError
    /\ UNCHANGED <<cls, image_size, model, gen_model, disc_model, nextNet>>
    /\ UNCHANGED <<train_ds, epochs, save_model, optimizers, loopVars, lossVars,
                   metricVars, ghostVars>>
    /\ UNCHANGED <<config, sampleVars, obsVars>>

\* call(x), the forward pass of a training or inference step:
\* x = self.enc(x); x = self.dec(x)
CaeCall ==
    /\ cls = "CAE"
    /\ pc = "idle"
    /\ op' = "call"
    /\ IF enc.built /\ dec.built
         THEN /\ pc' = "returned"
              /\ err' = NoError
         ELSE /\ pc' = "raised"
              /\ err' = Raise("TypeError", "call")
    /\ UNCHANGED <<instVars, argVars, optimizers, loopVars, lossVars, metricVars,
                   ghostVars>>
    /\ UNCHANGED <<config, sampleVars, obsVars>>

\* ------------------------------------------- generate_samples, get_sample
Min(a, b) == IF a < b THEN a ELSE b

\* data.unbatch().take(n): the first n elements, or all when there are fewer
Take(elems, n) == SubSeq(elems, 1, Min(n, Len(elems)))

\* the rows of Z = tf.random.normal([n, noise_dim]), numbered as drawn
Draws(n) == [i \in 1..n |-> i]

\* imageio.imwrite(os.path.join(save_dir, "sample_" + str(i) + ".jpg"), sample)
imwrite(i, sample) == [name |-> <<"sample_", i, ".jpg">>, sample |-> sample]

\* a sampling call that raises before it has an array
Abort(e) ==
    /\ pc' = "raised"
    /\ err' = e
    /\ samples' = <<>>
    /\ si' = 0
    /\ sample_files' = <<>>
    /\ result' = NoResult

\* an end of the sampling calls without the assert on the directory
Deliver_NoAssert(smp, sd) ==
    /\ samples' = smp
    /\ si' = 0
    /\ sample_files' = <<>>
    /\ err' = NoError
    /\ IF sd.t = "None"
         THEN /\ result' = [t |-> "array", v |-> smp]
              /\ pc' = "returned"
         ELSE /\ result' = NoResult
              /\ pc' = "writeLoop"

\* the end the four sampling calls share: the array is returned when save_dir
\* is None; otherwise assert os.path.exists(save_dir), then the imwrite loop
Deliver(smp, sd) ==
    /\ samples' = smp
    /\ si' = 0
    /\ sample_files' = <<>>
    /\ IF sd.t = "None"
         THEN /\ result' = [t |-> "array", v |-> smp]
              /\ pc' = "returned"
              /\ err' = NoError
         ELSE IF ~sd.exists
         THEN /\ result' = NoResult
              /\ pc' = "raised"
              /\ err' = Raise("AssertionError", "save_dir")
         ELSE /\ result' = NoResult
              /\ pc' = "writeLoop"
              /\ err' = NoError

\* a generate_samples that refuses to run without a generator
DcganGenerateSamples_Refuse(n, sd, ok) ==
    /\ cls = "DCGAN"
    /\ pc = "idle"
    /\ op' = "generate_samples"
    /\ n_samples' = n
    /\ save_dir' = sd
    /\ missing' = (gen_model = NoneRef)
    /\ IF gen_model = NoneRef
         THEN Abort(Raise("PreconditionError", "gen_model"))
         ELSE Deliver(Draws(n), sd)
    /\ UNCHANGED <<instVars, argVars, optimizers, loopVars, lossVars, metricVars,
                   ghostVars, config, obsVars>>

\* DCGAN.generate_samples up to the imwrite loop: __load_model when gen_model
\* is None, then the n samples of gen_model(Z)
DcganGenerateSamples(n, sd, ok) ==
    /\ cls = "DCGAN"
    /\ pc = "idle"
    /\ op' = "generate_samples"
    /\ n_samples' = n
    /\ save_dir' = sd
    /\ IF gen_model = NoneRef
         THEN /\ missing' = TRUE
              /\ gen_model' = load_model(ok).gen
              /\ disc_model' = load_model(ok).disc
              /\ nextNet' = load_model(ok).next
              /\ IF load_model(ok).err /= NoError
                   THEN Abort(load_model(ok).err)
                   ELSE Deliver(Draws(n), sd)
         ELSE /\ missing' = FALSE
              /\ UNCHANGED <<gen_model, disc_model, nextNet>>
              /\ Deliver(Draws(n), sd)
    /\ UNCHANGED <<cls, image_size, model, enc, dec>>
    /\ UNCHANGED <<argVars, optimizers, loopVars, lossVars, metricVars, ghostVars,
                   config, obsVars>>

\* DCGAN.get_sample up to the imwrite loop
DcganGetSample(data, n, sd) ==
    /\ cls = "DCGAN"
    /\ pc = "idle"
    /\ op' = "get_sample"
    /\ n_samples' = n
    /\ save_dir' = sd
    /\ missing' = FALSE
    /\ IF data.t = "None"
         THEN Abort(Raise("AssertionError", "data"))
         ELSE Deliver(Take(data.v, n), sd)
    /\ UNCHANGED <<instVars, argVars, optimizers, loopVars, lossVars, metricVars,
                   ghostVars, config, obsVars>>

\* VAE.get_sample up to the imwrite loop: every image taken is reshaped with
\* self.image_size
VaeGetSample(data, n, sd) ==
    /\ cls = "VAE"
    /\ pc = "idle"
    /\ op' = "get_sample"
    /\ n_samples' = n
    /\ save_dir' = sd
    /\ missing' = FALSE
    /\ IF data.t = "None"
         THEN Abort(Raise("AssertionError", "data"))
         ELSE IF Take(data.v, n) /= <<>> /\ ~image_size
         THEN Abort(Raise("TypeError", "image_size"))
         ELSE Deliver(Take(data.v, n), sd)
    /\ UNCHANGED <<instVars, argVars, optimizers, loopVars, lossVars, metricVars,
                   ghostVars, config, obsVars>>

\* VAE.generate_samples up to the imwrite loop: self.model(data) for every
\* batch of test_ds, then the reshape with self.image_size
VaeGenerateSamples(test_ds, sd) ==
    /\ cls = "VAE"
    /\ pc = "idle"
    /\ op' = "generate_samples"
    /\ n_samples' = 0
    /\ save_dir' = sd
    /\ missing' = FALSE
    /\ IF test_ds.t = "None"
         THEN Abort(Raise("AssertionError", "test_ds"))
         ELSE IF test_ds.v /= <<>> /\ model = NoneRef
         THEN Abort(Raise("TypeError", "model"))
         ELSE IF ~image_size
         THEN Abort(Raise("TypeError", "image_size"))
         ELSE Deliver(test_ds.v, sd)
    /\ UNCHANGED <<instVars, argVars, optimizers, loopVars, lossVars, metricVars,
                   ghostVars, config, obsVars>>

\* an imwrite loop that numbers the files from one
SampleWrite_OneBased ==
    /\ pc = "writeLoop"
    /\ si < Len(samples)
    /\ sample_files' = Append(sample_files, imwrite(si + 1, samples[si + 1]))
    /\ si' = si + 1
    /\ UNCHANGED <<op, pc, err, instVars, argVars, optimizers, loopVars, lossVars,
                   metricVars, ghostVars, config, obsVars>>
    /\ UNCHANGED <<n_samples, save_dir, samples, result, missing>>

\* for i, sample in enumerate(...): one imwrite
SampleWrite ==
    /\ pc = "writeLoop"
    /\ si < Len(samples)
    /\ sample_files' = Append(sample_files, imwrite(si, samples[si + 1]))
    /\ si' = si + 1
    /\ UNCHANGED <<op, pc, err, instVars, argVars, optimizers, loopVars, lossVars,
                   metricVars, ghostVars, config, obsVars>>
    /\ UNCHANGED <<n_samples, save_dir, samples, result, missing>>

\* the imwrite loop is over: the method falls off its end and returns None
SampleWriteEnd ==
    /\ pc = "writeLoop"
    /\ si = Len(samples)
    /\ result' = [t |-> "None", v |-> <<>>]
    /\ pc' = "returned"
    /\ UNCHANGED <<op, err, instVars, argVars, optimizers, loopVars, lossVars,
                   metricVars, ghostVars, config, obsVars>>
    /\ UNCHANGED <<n_samples, save_dir, samples, si, sample_files, missing>>

\* the call is over: its arguments and locals are gone, the instance stays
Return ==
    /\ pc \in {"returned", "raised"}
    /\ op' = "none"
    /\ pc' = "idle"
    /\ err' = NoError
    /\ train_ds' = NoArg
    /\ epochs' = 0
    /\ save_model' = NoArg
    /\ params' = NoParams
    /\ optimizers' = {}
    /\ epoch' = 0
    /\ bi' = 0
    /\ steps' = 0
    /\ loss' = 0
    /\ kl_loss' = 0
    /\ D_loss' = 0
    /\ G_loss' = 0
    /\ train_loss' = NewMean
    /\ generator_loss' = NewMean
    /\ discriminator_loss' = NewMean
    /\ updates' = <<>>
    /\ mse' = 0
    /\ applied' = 0
    /\ seen' = NoSeen
    /\ files' = {}
    /\ UNCHANGED instVars
    /\ n_samples' = 0
    /\ save_dir' = NoDir
    /\ samples' = <<>>
    /\ si' = 0
    /\ sample_files' = <<>>
    /\ result' = NoResult
    /\ missing' = FALSE
    /\ tensorboard' = FALSE
    /\ emitted' = <<>>
    /\ tape' = NoTape
    /\ UNCHANGED config

Next ==
    \/ LoadData
    \/ \E ds \in DataArgs, ep \in 0..MaxEpochs, sm \in SaveArgs, tb \in BOOLEAN,
          ok \in LoadOutcomes : DcganFit(ds, ep, sm, tb, ok)
    \/ DcganEpochBegin
    \/ DcganLoopExit
    \/ DcganDForward
    \/ DcganDApply
    \/ DcganGForward
    \/ DcganGApply
    \/ DcganStepEnd
    \/ DcganEpochEnd
    \/ DcganStepRaise
    \/ DcganSaveGen
    \/ DcganSaveDisc
    \/ \E ds \in DataArgs, ep \in 0..MaxEpochs, sm \in SaveArgs, tb \in BOOLEAN :
          VaeFit(ds, ep, sm, tb)
    \/ VaeEpochBegin
    \/ VaeLoopExit
    \/ VaeForward
    \/ VaeApply
    \/ VaeStepEnd
    \/ VaeEpochEnd
    \/ VaeStepRaise
    \/ VaeSave
    \/ \E p \in BuildParams : CaeBuildModel(p)
    \/ CaeCall
    \/ \E n \in 0..MaxSamples, sd \in DirArgs, ok \in LoadOutcomes :
          DcganGenerateSamples(n, sd, ok)
    \/ \E data \in DataArgs, n \in 0..MaxSamples, sd \in DirArgs :
          DcganGetSample(data, n, sd)
    \/ \E data \in DataArgs, n \in 0..MaxSamples, sd \in DirArgs :
          VaeGetSample(data, n, sd)
    \/ \E test_ds \in DataArgs, sd \in DirArgs : VaeGenerateSamples(test_ds, sd)
    \/ SampleWrite
    \/ SampleWriteEnd
    \/ Return

Spec == Init /\ [][Next]_vars

\* the methods of DCGAN that build, train or use the networks
NextRestore ==
    \/ LoadData
    \/ \E ds \in DataArgs, ep \in 0..MaxEpochs, sm \in SaveArgs, ok \in LoadOutcomes :
          DcganFit(ds, ep, sm, FALSE, ok)
    \/ DcganEpochBegin
    \/ DcganLoopExit
    \/ DcganDForward
    \/ DcganDApply
    \/ DcganGForward
    \/ DcganGApply
    \/ DcganStepEnd
    \/ DcganEpochEnd
    \/ DcganStepRaise
    \/ DcganSaveGen
    \/ DcganSaveDisc
    \/ \E n \in 0..MaxSamples, sd \in DirArgs, ok \in LoadOutcomes :
          DcganGenerateSamples(n, sd, ok)
    \/ SampleWrite
    \/ SampleWriteEnd
    \/ Return

\* a DCGAN whose construction named checkpoints to restore
SpecRestore == InitRestore /\ [][NextRestore]_vars

\* ----------------------------------------------------------- properties
InFit == cls \in {"VAE", "DCGAN"} /\ op = "fit" /\ pc \notin {"idle", "returned", "raised"}

NUpdates(net) == Cardinality({k \in DOMAIN updates : updates[k].net = net})

\* the update a fit call over B batches applies k-th when each step applies
\* the updates of nets, in that order
KthUpdate(nets, k) ==
    LET s == (k - 1) \div Len(nets)
    IN  [net |-> nets[((k - 1) % Len(nets)) + 1],
         epoch |-> s \div NBatches,
         batch |-> train_ds.v[(s % NBatches) + 1]]

\* C1: during DCGAN.fit the update trace is D,G,D,G,... (the discriminator
\* update of a step comes before its generator update, no two updates of one
\* network are adjacent), and a call that returns has applied exactly
\* epochs*B discriminator and epochs*B generator updates, batch by batch.
C1_DcganUpdateTrace ==
    cls = "DCGAN" =>
        /\ \A k \in DOMAIN updates : updates[k].net = IF k % 2 = 1 THEN "D" ELSE "G"
        /\ (op = "fit" /\ pc = "returned") =>
              /\ NUpdates("D") = epochs * NBatches
              /\ NUpdates("G") = epochs * NBatches
              /\ Len(updates) = 2 * epochs * NBatches
              /\ \A k \in DOMAIN updates : updates[k] = KthUpdate(<<"D", "G">>, k)
              /\ disc_model.ver = epochs * NBatches
              /\ gen_model.ver = epochs * NBatches

C1_Witness ==
    /\ cls = "DCGAN"
    /\ op = "fit"
    /\ pc = "returned"
    /\ epochs >= 2
    /\ NBatches >= 2
    /\ Len(updates) = 2 * epochs * NBatches

\* C2: in VAE.fit the loss whose gradient the optimizer update applies is
\* the reconstruction loss plus the KL term of the same forward pass.
C2_TotalLossApplied ==
    (cls = "VAE" /\ pc = "stepEnd") => applied = mse + kl_loss

\* number of actions VAE.fit still has to take before it returns
VaeRank ==
    IF pc \in {"idle", "returned", "raised"} THEN 0
    ELSE IF pc = "save" THEN 1
    ELSE (epochs - epoch) * (3 * NBatches + 2) + 2
         - (CASE pc = "epochLoop" -> 0
              [] pc = "batchLoop" -> 1 + 3 * bi
              [] pc = "vApply" -> 2 + 3 * bi
              [] pc = "stepEnd" -> 3 + 3 * bi)

\* C3: VAE.fit that returns has run exactly `epochs` epochs, one optimizer
\* update per batch in batch order (epochs*B in all); the loop has no early
\* exit, and every step of the call brings it closer to its end.
C3_VaeRunsAllEpochs ==
    /\ [](cls = "VAE" =>
            /\ pc \in {"batchLoop", "vApply"} => Len(updates) = epoch * NBatches + bi
            /\ pc = "stepEnd" => Len(updates) = epoch * NBatches + bi + 1
            /\ pc = "epochLoop" => Len(updates) = epoch * NBatches
            /\ \A k \in DOMAIN updates : updates[k] = KthUpdate(<<"V">>, k)
            /\ (op = "fit" /\ pc \in {"save", "returned"}) =>
                  /\ epoch = epochs
                  /\ Len(updates) = epochs * NBatches
                  /\ steps = epochs * NBatches
                  /\ model.ver = epochs * NBatches
            /\ (InFit => ENABLED Next))
    /\ [][(cls = "VAE" /\ InFit) => (VaeRank' < VaeRank /\ VaeRank' >= 0)]_vars

C3_Witness ==
    /\ cls = "VAE"
    /\ op = "fit"
    /\ pc = "returned"
    /\ epochs >= 2
    /\ NBatches >= 2
    /\ Len(updates) = epochs * NBatches

\* C4: between the steps of an epoch and when the epoch's mean is read,
\* every running mean holds exactly the step losses computed since that
\* epoch began, one per step: nothing of an earlier epoch is in it.
C4_MetricsPerEpoch ==
    pc = "batchLoop" =>
        /\ cls = "VAE" =>
              /\ train_loss = [total |-> seen.v, count |-> bi]
              /\ seen.n = bi
        /\ cls = "DCGAN" =>
              /\ generator_loss = [total |-> seen.g, count |-> bi]
              /\ discriminator_loss = [total |-> seen.d, count |-> bi]
              /\ seen.n = bi

C4_Witness ==
    /\ cls = "DCGAN"
    /\ pc = "batchLoop"
    /\ epoch >= 1
    /\ bi = NBatches
    /\ bi >= 2
    /\ generator_loss.count = bi

\* C5: a checkpoint file is written only when every epoch has completed; a
\* call whose training step failed has written no checkpoint, and after the
\* failure the call does nothing but end.
C5_NoCheckpointOnFailure ==
    /\ [](/\ files /= {} =>
              /\ pc \in {"saveDisc", "returned"}
              /\ epoch = epochs
              /\ steps = epochs * NBatches
          /\ (pc = "raised" /\ err.at = "step") => files = {})
    /\ [][pc = "raised" => (pc' = "idle" /\ UNCHANGED <<model, gen_model, disc_model>>)]_vars

C5_Witness ==
    /\ pc = "raised"
    /\ err.at = "step"
    /\ epoch >= 1
    /\ save_model.t = "str"
    /\ Len(save_model.v) > 0
    /\ files = {}

\* the path the checkpoint contract gives: the directory without its
\* trailing separator, one separator, the artifact name
ContractPath(d, name) ==
    (IF Len(d) > 0 /\ d[Len(d)] = "/" THEN SubSeq(d, 1, Len(d) - 1) ELSE d)
        \o <<"/">> \o <<name>>

\* C6: a fit call that reaches its save branch with a string save_model
\* writes exactly the artifacts the contract names (one for VAE, two for
\* DCGAN), each at directory, one separator, artifact name.
C6_CheckpointPaths ==
    (/\ op = "fit"
     /\ save_model.t = "str"
     /\ pc = "returned" \/ (pc = "raised" /\ err.at = "save_model"))
    => /\ pc = "returned"
       /\ cls = "VAE" =>
             files = {ContractPath(save_model.v, "variational_autoencoder_checkpoint")}
       /\ cls = "DCGAN" =>
             files = {ContractPath(save_model.v, "generator_checkpoint"),
                      ContractPath(save_model.v, "discriminator_checkpoint")}

\* C7: a fit call without a batch source raises the assertion error of its
\* first statement: no network is built, no optimizer is created, no update
\* is applied and the model references are those of before the call.
C7_NoDataFailsFirst ==
    [][(/\ pc = "idle"
        /\ op' = "fit"
        /\ train_ds'.t = "None")
       => /\ pc' = "raised"
          /\ err' = Raise("AssertionError", "train_ds")
          /\ UNCHANGED <<model, gen_model, disc_model, nextNet>>
          /\ optimizers' = {}
          /\ updates' = <<>>]_vars

C7_Witness ==
    /\ cls = "DCGAN"
    /\ op = "fit"
    /\ pc = "raised"
    /\ err = Raise("AssertionError", "train_ds")
    /\ gen_model.id /= 0
    /\ gen_model.ver > 0
    /\ image_size

EmptySource == op = "fit" /\ train_ds.t = "ds" /\ NBatches = 0

\* C8 as stated: a fit call on a batch source that yields no batch does not
\* complete normally.
C8_EmptySourceRejected ==
    EmptySource => pc /= "returned"

\* C8 amended: a fit call on a batch source that yields no batch is not
\* rejected for it: it runs its `epochs` epochs without any optimizer
\* update and goes on to the save branch; the only errors it can raise are
\* those of __load_model and of the save_model argument.
C8_EmptySourceCompletes ==
    EmptySource =>
        /\ updates = <<>>
        /\ steps = 0
        /\ model.ver = 0 /\ gen_model.ver = 0 /\ disc_model.ver = 0
        /\ pc = "raised" => err.at \in {"load_model", "gen_path", "disc_path", "save_model"}
        /\ pc = "returned" =>
              /\ epoch = epochs
              /\ save_model.t = "str" => files /= {}

C8_Witness ==
    /\ EmptySource
    /\ pc = "returned"
    /\ epochs >= 1
    /\ epoch = epochs
    /\ files /= {}

Mismatch(channels, layers) == Len(channels) /= layers

\* C9 as stated: a mismatch of list length and layer count is rejected at
\* construction, so no later call (build_model, a forward pass) raises the
\* dimension-mismatch error.
C9_RejectedAtConstruction ==
    cls = "CAE" =>
        ~(op \in {"build_model", "call"} /\ pc = "raised" /\ err.type = "AssertionError")

\* C9 amended: the constructor takes no configuration; a mismatch of list
\* length and layer count is rejected by build_model, at network build time:
\* the call raises (the AssertionError of encoder or decoder, unless an
\* earlier statement of build_model raised first) and no network is built
\* from a mismatched list, so no forward pass ever runs on one.
C9_RejectedAtBuild ==
    cls = "CAE" =>
        /\ enc.built => ~Mismatch(enc.channels, enc.layers)
        /\ dec.built => ~Mismatch(dec.channels, dec.layers)
        /\ (pc = "raised" /\ err.type = "AssertionError") =>
              op = "build_model" /\ err.at \in {"encoder", "decoder"}
        /\ (op = "build_model" /\ Mismatch(params.enc_channels, params.encoder_layers)) =>
              pc = "raised" /\ err = Raise("AssertionError", "encoder")
        /\ (op = "build_model" /\ Mismatch(params.dec_channels, params.decoder_layers)) =>
              /\ pc = "raised"
              /\ err.at = "decoder" => err.type = "AssertionError"
        /\ (op = "call" /\ pc = "returned") => enc.built /\ dec.built

C9_Witness ==
    /\ cls = "CAE"
    /\ op = "build_model"
    /\ pc = "raised"
    /\ err = Raise("AssertionError", "decoder")
    /\ enc.built
    /\ Mismatch(params.dec_channels, params.decoder_layers)

\* C10: a fit call that rejects a save_model that is neither None nor a
\* string has performed no training step and no parameter update.
C10_BadSaveTypeFailsFast ==
    (op = "fit" /\ pc = "raised" /\ err = Raise("AssertionError", "save_model")) =>
        /\ updates = <<>>
        /\ steps = 0

\* C11: DCGAN.generate_samples(n_samples=n) that has its generator: with
\* save_dir None it returns exactly the n samples in draw order and writes no
\* file; with an existing save_dir it writes exactly n files sample_0.jpg ...
\* sample_{n-1}.jpg, the i-th draw in sample_i.jpg, and returns None.
C11_GenerateSamplesCount ==
    (cls = "DCGAN" /\ op = "generate_samples") =>
        /\ pc \in {"writeLoop", "returned"} => samples = Draws(n_samples)
        /\ pc = "writeLoop" =>
              /\ si <= n_samples
              /\ sample_files = [k \in 1..si |-> imwrite(k - 1, k)]
        /\ (pc = "returned" /\ save_dir.t = "None") =>
              /\ result = [t |-> "array", v |-> Draws(n_samples)]
              /\ sample_files = <<>>
        /\ (pc = "returned" /\ save_dir.t = "str") =>
              /\ result = [t |-> "None", v |-> <<>>]
              /\ sample_files = [k \in 1..n_samples |-> imwrite(k - 1, k)]

C11_Witness ==
    /\ cls = "DCGAN"
    /\ op = "generate_samples"
    /\ pc = "returned"
    /\ save_dir.t = "str"
    /\ n_samples >= 2
    /\ Len(sample_files) = n_samples

\* C12 as stated: DCGAN.generate_samples on an instance whose gen_model is
\* None signals a PreconditionError and returns or saves no sample.
C12_NoGeneratorRejected ==
    (cls = "DCGAN" /\ op = "generate_samples" /\ missing) =>
        /\ pc = "raised"
        /\ err.type = "PreconditionError"

\* C12 amended: DCGAN.generate_samples on an instance whose gen_model is None
\* signals no PreconditionError: it builds the networks with __load_model and
\* samples from the untrained generator; it raises only when __load_model
\* raises (self.image_size not set, a checkpoint that fails to load) or when
\* save_dir does not exist.
C12_BuildsWhenMissing ==
    (cls = "DCGAN" /\ op = "generate_samples" /\ missing) =>
        /\ err.type /= "PreconditionError"
        /\ IF ~image_size
             THEN /\ pc = "raised"
                  /\ err = Raise("TypeError", "load_model")
                  /\ gen_model = NoneRef
                  /\ samples = <<>>
             ELSE /\ gen_model.id /= 0
                  /\ disc_model.id /= 0
                  /\ gen_model.ver = 0
                  /\ pc = "raised" => err.at \in {"gen_path", "disc_path", "save_dir"}
                  /\ pc /= "raised" => samples = Draws(n_samples)
                  /\ (pc = "returned" /\ save_dir.t = "None") =>
                        result = [t |-> "array", v |-> Draws(n_samples)]

C12_Witness ==
    /\ cls = "DCGAN"
    /\ op = "generate_samples"
    /\ missing
    /\ pc = "returned"
    /\ result.t = "array"
    /\ Len(result.v) >= 1
    /\ gen_model.ver = 0

\* C13: a network reference that is built stays the same object for the
\* lifetime of the instance: no later call replaces it with a newly built
\* network.
C13_NetworksPersist ==
    [][/\ model.id /= 0 => model'.id = model.id
       /\ gen_model.id /= 0 => gen_model'.id = gen_model.id
       /\ disc_model.id /= 0 => disc_model'.id = disc_model.id]_vars

\* C14: a sampling call (get_sample, generate_samples; VAE and DCGAN) whose
\* save_dir is given and does not exist fails with an error and writes no
\* sample file; a sample file is written only into an existing directory.
C14_MissingDirWritesNothing ==
    /\ (op \in {"generate_samples", "get_sample"} /\ save_dir.t = "str" /\ ~save_dir.exists) =>
          /\ pc = "raised"
          /\ err /= NoError
          /\ sample_files = <<>>
          /\ result = NoResult
    /\ sample_files /= <<>> => (save_dir.t = "str" /\ save_dir.exists)

C14_Witness ==
    /\ cls = "VAE"
    /\ op = "get_sample"
    /\ pc = "raised"
    /\ err = Raise("AssertionError", "save_dir")
    /\ Len(samples) >= 2
    /\ sample_files = <<>>

\* C15: in every DCGAN training step the discriminator parameters the second
\* tape reads are those the discriminator update of the same step produced:
\* one version later than those the first tape of the step read, and the
\* current ones.
C15_FreshDiscriminatorInPhaseG ==
    (cls = "DCGAN" /\ pc \in {"gApply", "stepEnd"}) =>
        /\ tape.D.step = steps
        /\ tape.G.step = steps
        /\ tape.G.disc = tape.D.disc + 1
        /\ tape.G.disc = disc_model.ver
        /\ updates[IF pc = "gApply" THEN Len(updates) ELSE Len(updates) - 1].net = "D"

C15_Witness ==
    /\ cls = "DCGAN"
    /\ pc = "gApply"
    /\ steps >= 1
    /\ tape.G.disc >= 2
    /\ tape.G.disc = disc_model.ver

\* C16: the discriminator update of a DCGAN step changes the discriminator
\* parameters and leaves the generator as it is; the generator update changes
\* the generator parameters and leaves the discriminator as it is; so each
\* network's version counts exactly its own updates.
C16_UpdateFrames ==
    /\ [][/\ (cls = "DCGAN" /\ pc = "dApply" /\ pc' = "gForward") =>
               /\ gen_model' = gen_model
               /\ disc_model' = [disc_model EXCEPT !.ver = @ + 1]
          /\ (cls = "DCGAN" /\ pc = "gApply" /\ pc' = "stepEnd") =>
               /\ disc_model' = disc_model
               /\ gen_model' = [gen_model EXCEPT !.ver = @ + 1]]_vars
    /\ []((cls = "DCGAN" /\ InFit) =>
               /\ disc_model.ver = NUpdates("D")
               /\ gen_model.ver = NUpdates("G"))

C16_Witness ==
    /\ cls = "DCGAN"
    /\ pc = "stepEnd"
    /\ gen_model.ver >= 2
    /\ disc_model.ver = gen_model.ver
    /\ NUpdates("G") = gen_model.ver

\* C17: in every step of VAE.fit and in each phase of a DCGAN.fit step the
\* loss comes from a forward pass of that step on the parameters as they are
\* before the update of the step (phase), the update follows it, and the
\* metric of the step takes that same loss.
C17_LossBeforeUpdate ==
    /\ [](/\ (cls = "VAE" /\ pc = "vApply") =>
               /\ tape.V.step = steps
               /\ tape.V.model = model.ver
               /\ tape.V.loss = loss
          /\ (cls = "VAE" /\ pc = "stepEnd") =>
               /\ tape.V.step = steps
               /\ tape.V.model = model.ver - 1
               /\ tape.V.loss = loss
          /\ (cls = "DCGAN" /\ pc = "dApply") =>
               /\ tape.D.step = steps
               /\ tape.D.disc = disc_model.ver
               /\ tape.D.gen = gen_model.ver
               /\ tape.D.loss = D_loss
          /\ (cls = "DCGAN" /\ pc = "gForward") =>
               /\ tape.D.disc = disc_model.ver - 1
               /\ tape.D.loss = D_loss
          /\ (cls = "DCGAN" /\ pc = "gApply") =>
               /\ tape.G.step = steps
               /\ tape.G.gen = gen_model.ver
               /\ tape.G.loss = G_loss
          /\ (cls = "DCGAN" /\ pc = "stepEnd") =>
               /\ tape.G.gen = gen_model.ver - 1
               /\ tape.G.loss = G_loss
               /\ tape.D.loss = D_loss)
    /\ [][(pc = "stepEnd" /\ pc' = "batchLoop") =>
             IF cls = "VAE"
               THEN train_loss' = update_state(train_loss, tape.V.loss)
               ELSE /\ generator_loss' = update_state(generator_loss, tape.G.loss)
                    /\ discriminator_loss' = update_state(discriminator_loss, tape.D.loss)]_vars

C17_Witness ==
    /\ cls = "VAE"
    /\ pc = "stepEnd"
    /\ steps >= 1
    /\ model.ver >= 2
    /\ tape.V.loss = 1
    /\ tape.V.model = model.ver - 1

\* C18: every fit call of a DCGAN constructed with checkpoint paths trains
\* newly built networks into which each configured checkpoint was loaded
\* before the first step; a load failure ends the call before any optimizer
\* exists and before any update, and the call does nothing more.
C18_RestoredBeforeTraining ==
    /\ []((cls = "DCGAN" /\ op = "fit") =>
            /\ (pc /= "raised" \/ err.at \in {"step", "save_model"}) =>
                  /\ config.gen_path /= "None" => gen_model.w = "restored"
                  /\ config.disc_path /= "None" => disc_model.w = "restored"
                  /\ gen_model.ver = NUpdates("G")
                  /\ disc_model.ver = NUpdates("D")
            /\ (pc = "raised" /\ err.type = "LoadError") =>
                  /\ updates = <<>>
                  /\ steps = 0
                  /\ optimizers = {}
                  /\ gen_model.ver = 0 /\ disc_model.ver = 0
                  /\ disc_model.w = "init"
                  /\ err.at = "gen_path" => gen_model.w = "init")
    /\ [][(pc = "raised" /\ err.type = "LoadError") =>
             (pc' = "idle" /\ UNCHANGED <<gen_model, disc_model>>)]_vars

C18_Witness ==
    /\ cls = "DCGAN"
    /\ op = "fit"
    /\ pc = "stepEnd"
    /\ config.gen_path /= "None"
    /\ config.disc_path /= "None"
    /\ gen_model.id = 3
    /\ gen_model.w = "restored"
    /\ disc_model.w = "restored"

\* C19: with tensorboard on, every completed training step of a fit call has
\* emitted each of its named scalars exactly once, tagged with the number of
\* the step counted over the whole call (1, 2, 3, ... across the epochs);
\* with tensorboard off nothing is emitted.
C19_ScalarsPerStep ==
    /\ op /= "fit" => emitted = <<>>
    /\ (op = "fit" /\ ~tensorboard) => emitted = <<>>
    /\ (op = "fit" /\ tensorboard /\ cls = "VAE") =>
          emitted = [k \in 1..steps |-> scalar("loss", k)]
    /\ (op = "fit" /\ tensorboard /\ cls = "DCGAN") =>
          emitted = [k \in 1..(2 * steps) |->
                        scalar(IF k % 2 = 1 THEN "discr_loss" ELSE "genr_loss",
                               (k + 1) \div 2)]
    /\ (op = "fit" /\ pc = "batchLoop") =>
          /\ steps = epoch * NBatches + bi
          /\ Len(updates) = (IF cls = "DCGAN" THEN 2 ELSE 1) * steps

C19_Witness ==
    /\ cls = "DCGAN"
    /\ op = "fit"
    /\ tensorboard
    /\ pc = "batchLoop"
    /\ epoch >= 1
    /\ steps > NBatches
    /\ Len(emitted) = 2 * steps

====
